---- MODULE Spec2Model ----
(***************************************************************************)
(* A model of the object utilities (equal, clone, softMerge, deepMerge)    *)
(* and of the promise combinators of js-utils.                             *)
(*                                                                         *)
(* JavaScript values live in a heap: a container is a heap cell with an    *)
(* identity (its index), a primitive is a value without identity.  The     *)
(* functions of the library are operators over the heap, translated        *)
(* statement by statement; the ones that allocate or mutate return the     *)
(* new heap.                                                               *)
(***************************************************************************)
EXTENDS Integers, Sequences, FiniteSets, TLC

VARIABLES
    heap,       \* the object heap: a sequence of cells, Ref(i) points at heap[i]
    heap0,      \* the heap as it was when the operation under test was called
    op,         \* the operation that ran last ("none" before any call)
    args,       \* the arguments of that call, a sequence of values
    opts,       \* the options of that call
    ret,        \* what the call returned (a value, or an outcome string)
    ret2,       \* what the companion call returned (equal with swapped arguments)
    mut,        \* the mutations the caller made after the call
    pal,        \* the run of promiseAllLimit: its promises and its position
    rt,         \* the run of retry: its attempts, its sleeps and its outcome
    wt,         \* the run of withTimeout: the promise, the timer and the race
    db,         \* a debounced function: its timer and the calls of func
    th          \* a throttled function: its closure and the calls of func

vars == <<heap, heap0, op, args, opts, ret, ret2, mut, pal, rt, wt, db, th>>

objVars == <<heap, heap0, op, args, opts, ret, ret2, mut>>

\* pal while no call of promiseAllLimit is modelled
PalIdle == [pc |-> "idle"]

\* rt, wt, db or th while no retry, withTimeout, debounce or throttle is
\* modelled
Idle == [pc |-> "idle"]

\* mut: on which side of the call the caller mutated ("clone": through the
\* value returned, "orig": through the argument) and which cells, in order
NoMut == [side |-> "none", cells |-> <<>>]

(***************************************************************************)
(* Values.                                                                 *)
(***************************************************************************)
Num(n)  == [t |-> "num", v |-> n]
NaN     == [t |-> "nan", v |-> 0]
Null    == [t |-> "null", v |-> 0]
Undef   == [t |-> "undef", v |-> 0]
Ref(i)  == [t |-> "ref", v |-> i]

\* what a call yields instead of a value when it throws
Thrown   == [t |-> "throw", v |-> 0]

IsRef(x) == x.t = "ref"

\* heap cells: items are the elements (arr, set), the entry values (map) or
\* the single epoch time (date); mkeys are the entry keys of a map; keys are
\* the names of the own enumerable properties of the object and props their
\* values (a plain object has nothing else); all are in insertion order.
Cell(kind, items, mkeys, keys, props) ==
    [kind |-> kind, items |-> items, mkeys |-> mkeys, keys |-> keys, props |-> props]

Arr(items)          == Cell("arr", items, <<>>, <<>>, <<>>)
SetOf(items)        == Cell("set", items, <<>>, <<>>, <<>>)
Rec(keys, props)    == Cell("rec", <<>>, <<>>, keys, props)
MapOf(mkeys, items) == Cell("map", items, mkeys, <<>>, <<>>)
DateOf(t)           == Cell("date", <<Num(t)>>, <<>>, <<>>, <<>>)

Range(s) == {s[i] : i \in DOMAIN s}

IndexOf(s, x) == IF x \in Range(s) THEN CHOOSE i \in DOMAIN s : s[i] = x ELSE 0

\* a === b
StrictEq(a, b) == a = b /\ a.t # "nan"

\* typeof
TypeOf(a) ==
    CASE a.t = "undef" -> "undefined"
      [] a.t \in {"num", "nan"} -> "number"
      [] OTHER -> "object"

\* Array.isArray(item)
IsArray(h, x) == IsRef(x) /\ h[x.v].kind = "arr"

\* isObject: item && typeof item === 'object' && !Array.isArray(item)
isObject(h, x) == IsRef(x) /\ h[x.v].kind # "arr"

\* obj[key] for a property name (undefined when absent)
Get(h, o, k) ==
    LET c == h[o.v]
    IN  IF k \in Range(c.keys) THEN c.props[IndexOf(c.keys, k)] ELSE Undef

HasOwn(h, o, k) == k \in Range(h[o.v].keys)

(***************************************************************************)
(* equal                                                                   *)
(***************************************************************************)
DefaultMaxDepth == 100

DefaultEqualOptions ==
    [strict |-> TRUE, fastJSON |-> FALSE, maxDepth |-> DefaultMaxDepth]

Bool(p) == IF p THEN "true" ELSE "false"

\* JSON.stringify, as a sequence of tokens; <<"!">> when it throws (a cycle).
\* A property whose value is undefined is left out, undefined and NaN inside
\* an array print as null, an array prints its elements, a date its time and
\* every other object its own enumerable properties.
RECURSIVE Json(_, _, _, _)
RECURSIVE JsonItems(_, _, _, _, _, _)

JsonItems(h, c, i, stack, first, acc) ==
    IF i > Len(IF c.kind = "arr" THEN c.items ELSE c.props) THEN acc
    ELSE LET inArr == c.kind = "arr"
             t == Json(h, IF inArr THEN c.items[i] ELSE c.props[i], stack, inArr)
         IN  IF t = <<"!">> THEN <<"!">>
             ELSE IF t = <<>> THEN JsonItems(h, c, i + 1, stack, first, acc)
             ELSE JsonItems(h, c, i + 1, stack, FALSE,
                      acc \o (IF first THEN <<>> ELSE <<",">>)
                          \o (IF inArr THEN <<>> ELSE <<c.keys[i], ":">>)
                          \o t)

Json(h, x, stack, inArray) ==
    CASE x.t = "num" -> <<ToString(x.v)>>
      [] x.t \in {"nan", "null"} -> <<"null">>
      [] x.t = "undef" -> IF inArray THEN <<"null">> ELSE <<>>
      [] OTHER ->
           LET c == h[x.v]
           IN  IF x.v \in stack THEN <<"!">>
               ELSE CASE c.kind = "date" -> <<"date", ToString(c.items[1].v)>>
                      [] OTHER ->
                           LET body == JsonItems(h, c, 1, stack \cup {x.v}, TRUE, <<>>)
                           IN  IF body = <<"!">> THEN <<"!">>
                               ELSE IF c.kind = "arr" THEN <<"[">> \o body \o <<"]">>
                               ELSE <<"{">> \o body \o <<"}">>

\* The cache maps an object to the set holding the one object it is being
\* compared with; it is kept as the set of <<key, member>> pairs.
CacheHas(cache, a) == \E p \in cache : p[1] = a.v

\* a cache that would know no pair
CacheGetHasNever(cache, a, b) == FALSE

CacheGetHas(cache, a, b) == <<a.v, b.v>> \in cache

RECURSIVE _equal(_, _, _, _, _, _)
RECURSIVE ArraysFrom(_, _, _, _, _, _, _)
RECURSIVE MapsFrom(_, _, _, _, _, _, _)
RECURSIVE SetsFrom(_, _, _, _, _, _, _)
RECURSIVE SetFind(_, _, _, _, _, _, _)
RECURSIVE ObjectsFrom(_, _, _, _, _, _, _)

\* the loop of _compareArrays from index i on
ArraysFrom(h, a, b, i, cache, depth, o) ==
    IF i > Len(h[a.v].items) THEN "true"
    ELSE LET r == _equal(h, h[a.v].items[i], h[b.v].items[i], cache, depth + 1, o)
         IN  IF r = "true" THEN ArraysFrom(h, a, b, i + 1, cache, depth, o) ELSE r

_compareArrays(h, a, b, cache, depth, o) ==
    IF Len(h[a.v].items) # Len(h[b.v].items) THEN "false"
    ELSE ArraysFrom(h, a, b, 1, cache, depth, o)

\* the loop of _compareMaps from entry i of a on
MapsFrom(h, a, b, i, cache, depth, o) ==
    IF i > Len(h[a.v].mkeys) THEN "true"
    ELSE LET key == h[a.v].mkeys[i]
             j == IndexOf(h[b.v].mkeys, key)
         IN  IF j = 0 THEN "false"
             ELSE LET r == _equal(h, h[a.v].items[i], h[b.v].items[j], cache, depth + 1, o)
                  IN  IF r = "true" THEN MapsFrom(h, a, b, i + 1, cache, depth, o) ELSE r

_compareMaps(h, a, b, cache, depth, o) ==
    IF Len(h[a.v].mkeys) # Len(h[b.v].mkeys) THEN "false"
    ELSE MapsFrom(h, a, b, 1, cache, depth, o)

\* the inner loop of _compareSets: is value equal to an element of b from j on
SetFind(h, value, b, j, cache, depth, o) ==
    IF j > Len(h[b.v].items) THEN "false"
    ELSE LET r == _equal(h, value, h[b.v].items[j], cache, depth + 1, o)
         IN  IF r = "false" THEN SetFind(h, value, b, j + 1, cache, depth, o) ELSE r

\* the outer loop of _compareSets from element i of a on
SetsFrom(h, a, b, i, cache, depth, o) ==
    IF i > Len(h[a.v].items) THEN "true"
    ELSE LET found == SetFind(h, h[a.v].items[i], b, 1, cache, depth, o)
         IN  IF found = "true" THEN SetsFrom(h, a, b, i + 1, cache, depth, o) ELSE found

\* a _compareSets that would compare element i with element i
_compareSetsInOrder(h, a, b, cache, depth, o) == _compareArrays(h, a, b, cache, depth, o)

_compareSets(h, a, b, cache, depth, o) ==
    IF Len(h[a.v].items) # Len(h[b.v].items) THEN "false"
    ELSE SetsFrom(h, a, b, 1, cache, depth, o)

\* the loop of _compareObjects from key i of a on
ObjectsFrom(h, a, b, i, cache, depth, o) ==
    IF i > Len(h[a.v].keys) THEN "true"
    ELSE LET key == h[a.v].keys[i]
         IN  IF ~HasOwn(h, b, key) THEN "false"
             ELSE LET r == _equal(h, h[a.v].props[i], Get(h, b, key), cache, depth + 1, o)
                  IN  IF r = "true" THEN ObjectsFrom(h, a, b, i + 1, cache, depth, o) ELSE r

_compareObjects(h, a, b, cache, depth, o) ==
    IF Len(h[a.v].keys) # Len(h[b.v].keys) THEN "false"
    ELSE ObjectsFrom(h, a, b, 1, cache, depth, o)

\* the switch on the tag, entered with a and b recorded in the cache
CompareByTag(h, a, b, cache, depth, o) ==
    LET tag == h[a.v].kind
    IN  CASE tag = "date" -> Bool(h[a.v].items[1] = h[b.v].items[1])
          [] tag = "arr"  -> _compareArrays(h, a, b, cache, depth, o)
          [] tag = "map"  -> _compareMaps(h, a, b, cache, depth, o)
          [] tag = "set"  -> _compareSets(h, a, b, cache, depth, o)
          [] OTHER ->
               LET ja == Json(h, a, {}, FALSE)
                   jb == Json(h, b, {}, FALSE)
               IN  IF o.fastJSON /\ ja # <<"!">> /\ jb # <<"!">>
                   THEN Bool(ja = jb)
                   ELSE _compareObjects(h, a, b, cache, depth, o)

\* depth > options.maxDepth
DepthExceededOffByOne(depth, o) == depth >= o.maxDepth

DepthExceeded(depth, o) == depth > o.maxDepth

\* Number.isNaN(a) && Number.isNaN(b)
BothNaNNever(a, b) == FALSE

BothNaN(a, b) == a.t = "nan" /\ b.t = "nan"

\* a == null
IsNullish(a) == a.t \in {"null", "undef"}

\* an equal that would tell null from undefined whatever strict is
NullishEqualAlwaysStrict(a, b, o) == StrictEq(a, b)

\* options.strict ? a === b : a == b, one of a and b being null or undefined
NullishEqual(a, b, o) ==
    IF o.strict THEN StrictEq(a, b) ELSE IsNullish(a) /\ IsNullish(b)

\* outcome: "true", "false" or "throw" (the depth error)
_equal(h, a, b, cache, depth, o) ==
    IF DepthExceeded(depth, o) THEN "throw"
    ELSE IF StrictEq(a, b) THEN "true"
    ELSE IF IsNullish(a) \/ IsNullish(b) THEN Bool(NullishEqual(a, b, o))
    ELSE IF TypeOf(a) # TypeOf(b) THEN "false"
    ELSE IF TypeOf(a) # "object" THEN Bool(BothNaN(a, b))
    ELSE IF h[a.v].kind # h[b.v].kind THEN "false"
    ELSE IF CacheHas(cache, a) THEN Bool(CacheGetHas(cache, a, b))
    ELSE IF CacheHas(cache, b) THEN Bool(CacheGetHas(cache, b, a))
    ELSE CompareByTag(h, a, b, cache \cup {<<a.v, b.v>>, <<b.v, a.v>>}, depth, o)

equal(h, a, b, o) == _equal(h, a, b, {}, 0, o)

(***************************************************************************)
(* Inputs of equal: two roots (cells 1 and 2) of the same kind over two     *)
(* inner cells (3 and 4).  A sequence root may hold itself, which makes it *)
(* cyclic, and both sequence roots may hold inner cells 3 and 4, which     *)
(* they then share; a set root holds inner cells 3 and 4; record root i holds inner  *)
(* cell 2 + i, so two record roots share nothing; a keyed mapping may have *)
(* inner cell 3 or inner cell 2 + i as a key.                              *)
(***************************************************************************)
MaxNum == 2
MaxLen == 2

Nums == {Num(n) : n \in 1..MaxNum}

SeqsUpTo(S, n) == UNION {[1..k -> S] : k \in 0..n}

NoDup(s) == \A i, j \in DOMAIN s : i # j => s[i] # s[j]

NoDupSeqsUpTo(S, n) == {s \in SeqsUpTo(S, n) : NoDup(s)}

EqInnerShapes == {Arr(<<>>), DateOf(1)} \cup {Arr(<<x>>) : x \in Nums}

\* the second nested container: numbers are only ever compared for equality,
\* so one number next to the numbers of the first container gives every case
EqSecondInnerShapes == {Arr(<<>>), DateOf(1), Arr(<<Num(1)>>)}

EqRootShapes(self, kind) ==
    CASE kind = "arr" -> {Arr(s) : s \in SeqsUpTo({Num(1), Ref(3), Ref(4), Ref(self)}, MaxLen)}
      [] kind = "set" -> {SetOf(s) : s \in NoDupSeqsUpTo({Num(1), Ref(3), Ref(4)}, MaxLen)}
      [] kind = "rec" ->
           UNION {{Rec(k, s) : s \in [DOMAIN k -> {Num(1), Undef, Ref(2 + self)}]} :
                    k \in NoDupSeqsUpTo({"x", "y"}, MaxLen)}
      [] OTHER ->
           UNION {{MapOf(k, s) : s \in [DOMAIN k -> {Num(1), Ref(4)}]} :
                    k \in NoDupSeqsUpTo({Num(1), Ref(3), Ref(2 + self)}, MaxLen)}

Kinds == {"arr", "set", "rec", "map"}

EqOptions ==
    {DefaultEqualOptions,
     [DefaultEqualOptions EXCEPT !.strict = FALSE],
     [DefaultEqualOptions EXCEPT !.fastJSON = TRUE]}
    \cup {[DefaultEqualOptions EXCEPT !.maxDepth = d] : d \in 0..1}

InitEq ==
    /\ \E kind \in Kinds :
         \E r1 \in EqRootShapes(1, kind), r2 \in EqRootShapes(2, kind),
            i3 \in EqInnerShapes, i4 \in EqSecondInnerShapes :
             heap = <<r1, r2, i3, i4>>
    /\ heap0 = heap
    /\ op = "none"
    /\ args = <<>>
    /\ opts = DefaultEqualOptions
    /\ ret = "none"
    /\ ret2 = "none"
    /\ mut = NoMut
    /\ pal = PalIdle
    /\ rt = Idle
    /\ wt = Idle
    /\ db = Idle
    /\ th = Idle

\* r = equal(a, b, options)
Compare ==
    /\ op = "none"
    /\ \E o \in EqOptions :
         /\ args' = <<Ref(1), Ref(2)>>
         /\ opts' = o
         /\ ret' = equal(heap, Ref(1), Ref(2), o)
    /\ op' = "equal"
    /\ UNCHANGED <<heap, heap0, ret2, mut, pal, rt, wt, db, th>>

\* r2 = equal(b, a, options), the same call with the arguments swapped
CompareSwapped ==
    /\ op = "equal"
    /\ ret2 = "none"
    /\ ret2' = equal(heap, args[2], args[1], opts)
    /\ UNCHANGED <<heap, heap0, op, args, opts, ret, mut, pal, rt, wt, db, th>>

\* r = equal(x, x) with the default options
CompareSelf ==
    /\ op = "none"
    /\ \E x \in {Ref(1), Num(1), NaN, Null, Undef} :
         /\ args' = <<x, x>>
         /\ ret' = equal(heap, x, x, DefaultEqualOptions)
    /\ op' = "equalSelf"
    /\ UNCHANGED <<heap, heap0, opts, ret2, mut, pal, rt, wt, db, th>>

NextEq == Compare \/ CompareSwapped \/ CompareSelf

SpecEq == InitEq /\ [][NextEq]_vars

(***************************************************************************)
(* Shape of a value: what it reaches, whether it is cyclic, how deep it    *)
(* nests, and whether two values are copies of each other.                 *)
(***************************************************************************)
ValuesOf(c) ==
    (IF c.kind = "date" THEN {} ELSE Range(c.items) \cup Range(c.mkeys)) \cup Range(c.props)

Kids(h, i) == {x.v : x \in {y \in ValuesOf(h[i]) : IsRef(y)}}

RECURSIVE ReachFrom(_, _, _)
ReachFrom(h, frontier, seen) ==
    IF frontier \subseteq seen THEN seen
    ELSE ReachFrom(h, UNION {Kids(h, i) : i \in frontier \ seen}, seen \cup frontier)

\* the cells reachable from value x (x itself included when it is a cell)
Reach(h, x) == IF IsRef(x) THEN ReachFrom(h, {x.v}, {}) ELSE {}

Cyclic(h, x) == \E i \in Reach(h, x) : i \in ReachFrom(h, Kids(h, i), {})

SetMax(S) == CHOOSE m \in S : \A n \in S : n <= m

\* the depth of the deepest value below x (x itself is at depth 0); acyclic x only
RECURSIVE DepthOf(_, _)
DepthOf(h, x) ==
    IF ~IsRef(x) \/ ValuesOf(h[x.v]) = {} THEN 0
    ELSE 1 + SetMax({DepthOf(h, y) : y \in ValuesOf(h[x.v])})

Perms(n) == {f \in [1..n -> 1..n] : \A i, j \in 1..n : i # j => f[i] # f[j]}

\* a and b have the same structure (acyclic values only): the same primitives,
\* and containers of the same kind holding structurally identical values, in
\* the same order for a sequence, in any order for a set, under the same
\* keys for a record, under structurally identical keys for a keyed mapping
RECURSIVE SameShape(_, _, _)
SameShape(h, a, b) ==
    IF ~IsRef(a) \/ ~IsRef(b) THEN a = b
    ELSE LET ca == h[a.v]
             cb == h[b.v]
             n == Len(ca.items)
         IN  /\ ca.kind = cb.kind
             /\ Len(cb.items) = n
             /\ Range(ca.keys) = Range(cb.keys)
             /\ \A k \in Range(ca.keys) : SameShape(h, Get(h, a, k), Get(h, b, k))
             /\ CASE ca.kind = "date" -> ca.items = cb.items
                  [] ca.kind = "arr" -> \A i \in 1..n : SameShape(h, ca.items[i], cb.items[i])
                  [] ca.kind = "set" ->
                       \E f \in Perms(n) : \A i \in 1..n : SameShape(h, ca.items[i], cb.items[f[i]])
                  [] ca.kind = "rec" -> TRUE
                  [] OTHER ->
                       \E f \in Perms(n) : \A i \in 1..n :
                           /\ SameShape(h, ca.mkeys[i], cb.mkeys[f[i]])
                           /\ SameShape(h, ca.items[i], cb.items[f[i]])

\* some keyed mapping below x has a container as a key
HasContainerKey(h, x) == \E i \in Reach(h, x) : \E k \in Range(h[i].mkeys) : IsRef(k)

(***************************************************************************)
(* Claims about equal.                                                     *)
(***************************************************************************)

\* C1: equal(a, b) = equal(b, a) for every pair of values, with no custom
\* comparator (the outcome of the call with the arguments swapped is the
\* outcome of the call).
C1_Symmetric == (op = "equal" /\ ret2 # "none") => ret = ret2

\* C4: equal(x, x) returns true for every value x under the default options:
\* primitives, NaN, containers and cyclic structures.
C4_Reflexive == op = "equalSelf" => ret = "true"

C4_Witness ==
    /\ op = "equalSelf"
    /\ ret = "true"
    /\ IsRef(args[1])
    /\ Cyclic(heap, args[1])

\* the inputs of the last call are acyclic
AcyclicArgs == \A i \in DOMAIN args : ~Cyclic(heap, args[i])

ArgsDepth == SetMax({DepthOf(heap, args[i]) : i \in DOMAIN args})

C23_IdentityFirst ==
    (op = "equal" /\ heap[1].kind = "arr" /\ heap[1].items # <<>>
       /\ heap[1].items = heap[2].items
       /\ \A i \in DOMAIN heap[1].items : StrictEq(heap[1].items[i], heap[2].items[i])) =>
        ret = "true"

\* C25: the fast path is only an optimization: for any two plain records,
\* equal with fastJSON enabled returns what it returns with fastJSON
\* disabled, whatever the insertion order of the keys and whatever keys
\* hold undefined.
C25_FastPathSameResult ==
    (op = "equal" /\ opts.fastJSON /\ heap[1].kind = "rec" /\ heap[2].kind = "rec") =>
        ret = equal(heap, args[1], args[2], [opts EXCEPT !.fastJSON = FALSE])

\* no two elements of sequence s are equal to each other under equal
PairwiseUnequal(h, s, o) ==
    \A i, j \in DOMAIN s : i # j => equal(h, s[i], s[j], o) # "true"

\* the elements of cell b are the elements of cell a in another order
Reordered(h, a, b) ==
    /\ Len(h[a].items) = Len(h[b].items)
    /\ Range(h[a].items) = Range(h[b].items)
    /\ NoDup(h[a].items)
    /\ NoDup(h[b].items)
    /\ h[a].items # h[b].items

\* C13: for two sets holding the same elements inserted in different order
\* equal returns true; for two sequences holding the same elements, no two
\* of them equal to each other, in different order equal returns false
\* (stated for the default maxDepth).
C13_OrderOfSetsAndSequences ==
    (op = "equal" /\ opts.maxDepth = DefaultMaxDepth /\ Reordered(heap, 1, 2)) =>
        /\ heap[1].kind = "set" => ret = "true"
        /\ (heap[1].kind = "arr" /\ PairwiseUnequal(heap, heap[1].items, opts)) =>
              ret = "false"

\* two sets of two containers in different order, compared
C13_WitnessSets ==
    /\ op = "equal"
    /\ opts = DefaultEqualOptions
    /\ heap[1] = SetOf(<<Ref(3), Ref(4)>>)
    /\ heap[2] = SetOf(<<Ref(4), Ref(3)>>)
    /\ ret = "true"

\* two sequences of two unequal containers in different order, compared
C13_Witness ==
    /\ op = "equal"
    /\ opts = DefaultEqualOptions
    /\ heap[1] = Arr(<<Ref(3), Ref(4)>>)
    /\ heap[2] = Arr(<<Ref(4), Ref(3)>>)
    /\ PairwiseUnequal(heap, heap[1].items, opts)
    /\ ret = "false"

(***************************************************************************)
(* equal on null and undefined: the values compared are primitives, null   *)
(* and undefined among them, or two containers (cells 1 and 2) of the same *)
(* kind that hold such primitives.                                         *)
(***************************************************************************)
Prims == {Num(1), NaN, Null, Undef}

NullishShapes(kind) ==
    CASE kind = "arr" -> {Arr(s) : s \in SeqsUpTo(Prims, MaxLen)}
      [] kind = "rec" ->
           UNION {{Rec(k, s) : s \in [DOMAIN k -> Prims]} :
                    k \in NoDupSeqsUpTo({"x", "y"}, MaxLen)}
      [] OTHER -> {MapOf(<<Num(1)>>, <<v>>) : v \in Prims}

InitNullish ==
    /\ \E kind \in {"arr", "rec", "map"} :
         \E c1 \in NullishShapes(kind), c2 \in NullishShapes(kind) : heap = <<c1, c2>>
    /\ heap0 = heap
    /\ op = "none"
    /\ args = <<>>
    /\ opts = DefaultEqualOptions
    /\ ret = "none"
    /\ ret2 = "none"
    /\ mut = NoMut
    /\ pal = PalIdle
    /\ rt = Idle
    /\ wt = Idle
    /\ db = Idle
    /\ th = Idle

\* r = equal(x, y, {strict}) on two top-level values
CompareValues ==
    /\ op = "none"
    /\ \E x \in Prims \cup {Ref(1)}, y \in Prims \cup {Ref(1)}, strict \in BOOLEAN :
         /\ args' = <<x, y>>
         /\ opts' = [DefaultEqualOptions EXCEPT !.strict = strict]
         /\ ret' = equal(heap, x, y, opts')
    /\ op' = "equalValues"
    /\ UNCHANGED <<heap, heap0, ret2, mut, pal, rt, wt, db, th>>

\* r = equal(a, b, {strict}) on the two containers
CompareNested ==
    /\ op = "none"
    /\ \E strict \in BOOLEAN :
         /\ opts' = [DefaultEqualOptions EXCEPT !.strict = strict]
         /\ ret' = equal(heap, Ref(1), Ref(2), opts')
    /\ args' = <<Ref(1), Ref(2)>>
    /\ op' = "equalNested"
    /\ UNCHANGED <<heap, heap0, ret2, mut, pal, rt, wt, db, th>>

NextNullish == CompareValues \/ CompareNested

SpecNullish == InitNullish /\ [][NextNullish]_vars

\* what the rule makes of two primitives: the same value, or with strict off
\* null and undefined in any combination
AbsentRule(x, y, strict) ==
    x = y \/ (~strict /\ x \in {Null, Undef} /\ y \in {Null, Undef})

\* cells a and b hold values under the same positions or keys
SameSlots(h, a, b) ==
    /\ Len(h[a].items) = Len(h[b].items)
    /\ h[a].mkeys = h[b].mkeys
    /\ Len(h[a].keys) = Len(h[b].keys)
    /\ Range(h[a].keys) = Range(h[b].keys)

\* the rule holds between the values of a and b, slot by slot
SlotsAgree(h, a, b, strict) ==
    /\ \A i \in DOMAIN h[a].items : AbsentRule(h[a].items[i], h[b].items[i], strict)
    /\ \A k \in Range(h[a].keys) : AbsentRule(Get(h, Ref(a), k), Get(h, Ref(b), k), strict)

\* C14: with strict (the default) equal(null, undefined) is false; with
\* strict off null and undefined are equal to each other; in both modes null
\* or undefined is never equal to another value; and the same rule decides
\* the values nested in two containers of the same slots (stated with the
\* other options at their defaults).
C14_NullAndUndefined ==
    /\ (op = "equalValues" /\ (IsNullish(args[1]) \/ IsNullish(args[2]))) =>
          ret = Bool(AbsentRule(args[1], args[2], opts.strict))
    /\ (op = "equalNested" /\ SameSlots(heap, 1, 2)) =>
          ret = Bool(SlotsAgree(heap, 1, 2, opts.strict))

\* {x: null, y: 1} and {x: undefined, y: 1} compared with strict off
C14_Witness ==
    /\ op = "equalNested"
    /\ ~opts.strict
    /\ heap[1] = Rec(<<"x", "y">>, <<Null, Num(1)>>)
    /\ heap[2] = Rec(<<"x", "y">>, <<Undef, Num(1)>>)
    /\ ret = "true"

(***************************************************************************)
(* equal on cyclic values: root i (cell 1 or 2) and its inner cell (cell 3 *)
(* or 4) are containers that may hold a primitive, themselves and each     *)
(* other.  The second pair is the first one with its references renamed,   *)
(* which makes the two values distinct structures of identical shape, or   *)
(* has another inner cell.                                                 *)
(***************************************************************************)
CyclicShapes(root) ==
    LET Vals == {Num(1), Ref(root), Ref(root + 2)}
    IN  {Arr(s) : s \in SeqsUpTo(Vals, MaxLen)}
        \cup {SetOf(s) : s \in NoDupSeqsUpTo(Vals, MaxLen)}
        \cup {Rec(<<"x">>, <<v>>) : v \in Vals}
        \cup {Rec(<<"x", "y">>, <<v, w>>) : v \in Vals, w \in Vals}
        \cup {MapOf(<<Num(1)>>, <<v>>) : v \in Vals}

\* the counterpart of a value of the first structure in the second one
Renamed(v) == IF IsRef(v) THEN Ref(v.v + 1) ELSE v

RenamedCell(c) ==
    [c EXCEPT !.items = [i \in DOMAIN c.items |-> Renamed(c.items[i])],
              !.props = [i \in DOMAIN c.props |-> Renamed(c.props[i])]]

InitCyclic ==
    /\ \E r1 \in CyclicShapes(1), i3 \in CyclicShapes(1) :
         \E i4 \in {RenamedCell(i3)} \cup CyclicShapes(2) :
             heap = <<r1, RenamedCell(r1), i3, i4>>
    /\ heap0 = heap
    /\ op = "none"
    /\ args = <<>>
    /\ opts = DefaultEqualOptions
    /\ ret = "none"
    /\ ret2 = "none"
    /\ mut = NoMut
    /\ pal = PalIdle
    /\ rt = Idle
    /\ wt = Idle
    /\ db = Idle
    /\ th = Idle

\* r = equal(a, b, {fastJSON}) on the two roots
CompareCyclic ==
    /\ op = "none"
    /\ \E fastJSON \in BOOLEAN :
         /\ opts' = [DefaultEqualOptions EXCEPT !.fastJSON = fastJSON]
         /\ ret' = equal(heap, Ref(1), Ref(2), opts')
    /\ args' = <<Ref(1), Ref(2)>>
    /\ op' = "equalCyclic"
    /\ UNCHANGED <<heap, heap0, ret2, mut, pal, rt, wt, db, th>>

NextCyclic == CompareCyclic

SpecCyclic == InitCyclic /\ [][NextCyclic]_vars

\* the second structure is the first one, cell for cell
IdenticalShape ==
    /\ heap[2] = RenamedCell(heap[1])
    /\ 3 \in Reach(heap, Ref(1)) => heap[4] = RenamedCell(heap[3])

\* C24: comparing two distinct cyclic structures of identical shape (each
\* refers back to itself or to an ancestor at the same position) ends and
\* returns true, without a depth error (stated for sequences, sets, records
\* and keyed mappings with primitive keys).
C24_CyclicEqual ==
    (op = "equalCyclic" /\ IdenticalShape /\ Cyclic(heap, Ref(1))) => ret = "true"

\* a = [1, c] and c = {x: a, y: c}, against their copies
C24_Witness ==
    /\ op = "equalCyclic"
    /\ IdenticalShape
    /\ heap[1] = Arr(<<Num(1), Ref(3)>>)
    /\ heap[3] = Rec(<<"x", "y">>, <<Ref(1), Ref(3)>>)
    /\ ret = "true"

(***************************************************************************)
(* softMerge and deepMerge                                                 *)
(***************************************************************************)

\* obj[key] = v: replaces the value of an own property or adds the property
SetProp(h, o, key, v) ==
    LET c == h[o.v]
    IN  IF key \in Range(c.keys)
        THEN [h EXCEPT ![o.v].props[IndexOf(c.keys, key)] = v]
        ELSE [h EXCEPT ![o.v].keys = Append(c.keys, key), ![o.v].props = Append(c.props, v)]

\* the elements prevValue.concat(...currentValue) appends: concat takes each
\* element of currentValue as an argument of its own, and spreads the
\* elements of an argument that is itself an array
RECURSIVE ConcatArgs(_, _)
ConcatArgs(h, es) ==
    IF es = <<>> THEN <<>>
    ELSE (IF IsArray(h, Head(es)) THEN h[Head(es).v].items ELSE <<Head(es)>>)
             \o ConcatArgs(h, Tail(es))

RECURSIVE MergeKeys(_, _, _, _, _)
RECURSIVE MergeInto(_, _, _, _)

\* result[key] = deepMerge(prevValue, currentValue): merges into prevValue,
\* which is what the call returns
MergeNested(h, result, key, prev, cur) ==
    SetProp(MergeInto(h, prev, <<prev, cur>>, 2), result, key, prev)

\* the loop over Object.keys(obj) from key j on, result[key] being set from
\* prevValue and currentValue (lines 74-85); the heap after it
MergeKeys(h, result, obj, ks, j) ==
    IF j > Len(ks) THEN h
    ELSE LET key == ks[j]
             prev == Get(h, result, key)
             cur == Get(h, obj, key)
             h1 == IF IsArray(h, prev) /\ IsArray(h, cur)
                   THEN SetProp(Append(h, Arr(h[prev.v].items \o ConcatArgs(h, h[cur.v].items))),
                                result, key, Ref(Len(h) + 1))
                   ELSE IF isObject(h, prev) /\ isObject(h, cur)
                   THEN MergeNested(h, result, key, prev, cur)
                   ELSE SetProp(h, result, key, cur)
         IN  MergeKeys(h1, result, obj, ks, j + 1)

\* the loop over objects[i], i >= 1 (here from the i-th argument on, counted
\* from 1); the heap after it
MergeInto(h, result, objects, i) ==
    IF i > Len(objects) THEN h
    ELSE MergeInto(MergeKeys(h, result, objects[i], h[objects[i].v].keys, 1),
                   result, objects, i + 1)

\* a deepMerge that would accept a single argument
deepMergeOfOne(h, objects) ==
    IF Len(objects) < 1 THEN [h |-> h, r |-> Thrown]
    ELSE [h |-> MergeInto(h, objects[1], objects, 2), r |-> objects[1]]

\* deepMerge(...objects): the heap after the call and what it returns
\* ("throw" with fewer than two arguments)
deepMerge(h, objects) ==
    IF Len(objects) < 2 THEN [h |-> h, r |-> Thrown]
    ELSE [h |-> MergeInto(h, objects[1], objects, 2), r |-> objects[1]]

\* a softMerge that would also copy the keys only values has
SoftKeysOfBoth(h, base, values) ==
    h[base.v].keys \o SelectSeq(h[values.v].keys, LAMBDA k : k \notin Range(h[base.v].keys))

\* Object.keys(base), the keys softMerge copies
SoftKeys(h, base, values) == h[base.v].keys

\* the loop of softMerge over the keys of base from key j on, filling the
\* result cell; the heap after it.  (key in values is modelled for own keys:
\* the keys of the model are not names of Object.prototype.)
RECURSIVE SoftFrom(_, _, _, _, _, _, _)
RECURSIVE softMerge(_, _, _, _)

SoftFrom(h, result, base, values, deep, ks, j) ==
    IF j > Len(ks) THEN h
    ELSE LET key == ks[j]
             baseValue == Get(h, base, key)
             hasValueKey == HasOwn(h, values, key)
             valuesKey == Get(h, values, key)
             h1 == IF deep /\ hasValueKey /\ isObject(h, baseValue) /\ isObject(h, valuesKey)
                   THEN LET m == softMerge(h, baseValue, valuesKey, deep)
                        IN  SetProp(m.h, result, key, m.r)
                   ELSE SetProp(h, result, key, IF hasValueKey THEN valuesKey ELSE baseValue)
         IN  SoftFrom(h1, result, base, values, deep, ks, j + 1)

\* softMerge(base, values, {deep}): the heap after the call and the result
softMerge(h, base, values, deep) ==
    LET n == Len(h) + 1
    IN  [h |-> SoftFrom(Append(h, Rec(<<>>, <<>>)), Ref(n), base, values, deep,
                        SoftKeys(h, base, values), 1),
         r |-> Ref(n)]

(***************************************************************************)
(* Inputs of the merges: three records (cells 1, 2, 3) with keys a and b   *)
(* over two inner cells (4 and 5) that any of them may hold, and a leaf    *)
(* container (cell 6) that the inner cells may hold.                       *)
(***************************************************************************)
MergeLeafShapes == {Arr(<<Num(1), Num(2)>>), Rec(<<"y">>, <<Num(2)>>)}

MergeInnerShapes ==
    {Arr(s) : s \in SeqsUpTo({Num(1), Ref(6)}, MaxLen)}
    \cup {Rec(<<"x">>, <<v>>) : v \in {Num(1), Ref(6)}}
    \cup {Rec(<<"y">>, <<Num(2)>>), Rec(<<"x", "y">>, <<Num(1), Num(2)>>)}
    \cup {DateOf(1), SetOf(<<Num(1)>>)}

MergeRootShapes(keyseqs, vals) ==
    UNION {{Rec(k, s) : s \in [DOMAIN k -> vals]} : k \in keyseqs}

InitMerge ==
    /\ \E r1 \in MergeRootShapes({<<>>, <<"a">>, <<"a", "b">>}, {Num(1), Ref(4)}),
          r2 \in MergeRootShapes({<<"a">>, <<"b">>, <<"a", "b">>}, {Num(2), Ref(4), Ref(5)}),
          r3 \in MergeRootShapes({<<"a">>}, {Num(1), Ref(5)}),
          i4 \in MergeInnerShapes, i5 \in MergeInnerShapes, l6 \in MergeLeafShapes :
            heap = <<r1, r2, r3, i4, i5, l6>>
    /\ heap0 = heap
    /\ op = "none"
    /\ args = <<>>
    /\ opts = [deep |-> TRUE]
    /\ ret = Undef
    /\ ret2 = "none"
    /\ mut = NoMut
    /\ pal = PalIdle
    /\ rt = Idle
    /\ wt = Idle
    /\ db = Idle
    /\ th = Idle

\* r = deepMerge(v1, ..., vn)
DeepMergeCall ==
    /\ op = "none"
    /\ \E objects \in {<<>>, <<Ref(1)>>, <<Ref(1), Ref(2)>>, <<Ref(1), Ref(2), Ref(3)>>} :
         LET m == deepMerge(heap, objects)
         IN  /\ args' = objects
             /\ heap' = m.h
             /\ ret' = m.r
    /\ op' = "deepMerge"
    /\ UNCHANGED <<heap0, opts, ret2, mut, pal, rt, wt, db, th>>

\* r = softMerge(base, values, {deep})
SoftMergeCall ==
    /\ op = "none"
    /\ \E deep \in BOOLEAN :
         LET m == softMerge(heap, Ref(1), Ref(2), deep)
         IN  /\ args' = <<Ref(1), Ref(2)>>
             /\ opts' = [deep |-> deep]
             /\ heap' = m.h
             /\ ret' = m.r
    /\ op' = "softMerge"
    /\ UNCHANGED <<heap0, ret2, mut, pal, rt, wt, db, th>>

NextMerge == DeepMergeCall \/ SoftMergeCall

SpecMerge == InitMerge /\ [][NextMerge]_vars

(***************************************************************************)
(* Claims about the merges.                                                *)
(***************************************************************************)

\* no two arguments of the call reached a common container when it was made
ArgsDisjoint ==
    \A i, j \in DOMAIN args :
        i # j => Reach(heap0, args[i]) \cap Reach(heap0, args[j]) = {}

\* C2: deepMerge returns its first argument and mutates nothing else: after
\* deepMerge(v1, ..., vn) every container reachable from v2..vn is as it was
\* (stated for arguments that share no container, so that a change of v1 is
\* not a change of another argument).
C2_OnlyFirstMutated ==
    (op = "deepMerge" /\ Len(args) >= 2 /\ ArgsDisjoint) =>
        /\ ret = args[1]
        /\ \A i \in 2..Len(args) : \A c \in Reach(heap0, args[i]) : heap[c] = heap0[c]

\* C10: where the accumulated and the incoming value of a key are both
\* sequences, the result holds the accumulated elements followed by the
\* incoming elements, each kept as it is (stated for deepMerge(v1, v2)).
C10_Concat ==
    (op = "deepMerge" /\ Len(args) = 2 /\ ArgsDisjoint) =>
        \A k \in Range(heap0[args[2].v].keys) :
            LET prev == Get(heap0, args[1], k)
                cur == Get(heap0, args[2], k)
                new == Get(heap, ret, k)
            IN  (IsArray(heap0, prev) /\ IsArray(heap0, cur)) =>
                    /\ IsArray(heap, new)
                    /\ heap[new.v].items = heap0[prev.v].items \o heap0[cur.v].items

IsRecord(h, x) == IsRef(x) /\ h[x.v].kind = "rec"

\* the own keys of r are the own keys of base, and so on below every key
\* that softMerge merges recursively
RECURSIVE SoftKeysOk(_, _, _, _)
SoftKeysOk(h, r, base, values) ==
    /\ Range(h[r.v].keys) = Range(h[base.v].keys)
    /\ Len(h[r.v].keys) = Len(h[base.v].keys)
    /\ \A k \in Range(h[base.v].keys) :
         (opts.deep /\ HasOwn(h, values, k)
            /\ IsRecord(h, Get(h, base, k)) /\ IsRecord(h, Get(h, values, k)))
         => SoftKeysOk(h, Get(h, r, k), Get(h, base, k), Get(h, values, k))

ReadmeSoftMerge ==
    /\ op = "softMerge"
    /\ heap0[1] = Rec(<<"a">>, <<Num(1)>>)
    /\ heap0[2] = Rec(<<"b">>, <<Num(2)>>)

C26_SoftMergeRecursion ==
    op = "softMerge" =>
        \A k \in Range(heap0[args[1].v].keys) :
            LET baseValue == Get(heap0, args[1], k)
                hasValueKey == HasOwn(heap0, args[2], k)
                valuesKey == Get(heap0, args[2], k)
                new == Get(heap, ret, k)
            IN  IF opts.deep /\ hasValueKey
                     /\ IsRecord(heap0, baseValue) /\ IsRecord(heap0, valuesKey)
                THEN IsRecord(heap, new) /\ new.v > Len(heap0)
                ELSE new = IF hasValueKey THEN valuesKey ELSE baseValue

\* C11: deepMerge is a left-to-right fold per key: the result has every key
\* of every input; where the accumulated and the incoming value are both
\* generic records the result holds a record with the keys of both; in every
\* other case that is not two sequences (primitives, mixed kinds, dates,
\* sets, keyed mappings) the incoming value replaces the accumulated one
\* (stated for deepMerge(v1, v2)).
C11_Fold ==
    (op = "deepMerge" /\ Len(args) = 2 /\ ArgsDisjoint) =>
        /\ \A i \in 1..2 : Range(heap0[args[i].v].keys) \subseteq Range(heap[ret.v].keys)
        /\ \A k \in Range(heap0[args[2].v].keys) :
              LET prev == Get(heap0, args[1], k)
                  cur == Get(heap0, args[2], k)
                  new == Get(heap, ret, k)
              IN  IF IsArray(heap0, prev) /\ IsArray(heap0, cur) THEN TRUE
                  ELSE IF IsRecord(heap0, prev) /\ IsRecord(heap0, cur)
                  THEN /\ IsRecord(heap, new)
                       /\ Range(heap[new.v].keys) =
                              Range(heap0[prev.v].keys) \cup Range(heap0[cur.v].keys)
                  ELSE new = cur

\* C12: deepMerge called with no argument or with one argument raises an
\* error, and the single argument (if any) is left unchanged.
C12_TooFewArguments ==
    (op = "deepMerge" /\ Len(args) < 2) => (ret = Thrown /\ heap = heap0)

\* deepMerge(v1) with a v1 that has keys raised an error
C12_Witness ==
    /\ op = "deepMerge"
    /\ Len(args) = 1
    /\ heap0[args[1].v].keys # <<>>
    /\ ret = Thrown
    /\ heap = heap0

(***************************************************************************)
(* clone                                                                   *)
(***************************************************************************)

\* the depth of recursion at which the engine gives up (the call stack is
\* finite): the call then throws a RangeError
MaxCallDepth == 4

RECURSIVE clone(_, _, _, _)
RECURSIVE CloneAll(_, _, _, _)

\* the clones of vals, made one after the other; ok is FALSE when one threw
CloneAll(h, vals, deep, depth) ==
    IF vals = <<>> THEN [h |-> h, out |-> <<>>, ok |-> TRUE]
    ELSE LET c == clone(h, Head(vals), deep, depth)
         IN  IF c.r = Thrown THEN [h |-> c.h, out |-> <<>>, ok |-> FALSE]
             ELSE LET rest == CloneAll(c.h, Tail(vals), deep, depth)
                  IN  [h |-> rest.h, out |-> <<c.r>> \o rest.out, ok |-> rest.ok]

\* a clone that would keep the members whatever deep is
CloneElemsAlwaysShallow(h, vals, deep, depth) == [h |-> h, out |-> vals, ok |-> TRUE]

\* a clone that would clone the members whatever deep is
CloneElemsAlwaysDeep(h, vals, deep, depth) == CloneAll(h, vals, TRUE, depth)

\* deep ? clone(value, options) : value, for each value of vals in order
CloneElems(h, vals, deep, depth) ==
    IF deep THEN CloneAll(h, vals, deep, depth) ELSE [h |-> h, out |-> vals, ok |-> TRUE]

\* k1, v1, k2, v2, ... : the order in which the entries of a Map are cloned
Interleave(ks, vs) == [i \in 1..(2 * Len(ks)) |-> IF i % 2 = 1 THEN ks[(i + 1) \div 2] ELSE vs[i \div 2]]

Odds(s) == [i \in 1..(Len(s) \div 2) |-> s[2 * i - 1]]

Evens(s) == [i \in 1..(Len(s) \div 2) |-> s[2 * i]]

\* clone(obj, {deep}) at recursion depth `depth`: the heap after the call and
\* the clone, or Thrown.  The new container is created first and filled with
\* the (cloned) members after; the clones of the keys of a Map and of the
\* elements of a Set are new objects or the same primitives, so set and add
\* never meet an entry twice.
clone(h, obj, deep, depth) ==
    IF depth > MaxCallDepth THEN [h |-> h, r |-> Thrown]
    ELSE IF ~IsRef(obj) THEN [h |-> h, r |-> obj]
    ELSE LET c == h[obj.v]
             n == Len(h) + 1
         IN  CASE c.kind = "date" -> [h |-> Append(h, DateOf(c.items[1].v)), r |-> Ref(n)]
               [] c.kind = "map" ->
                    LET m == CloneElems(Append(h, MapOf(<<>>, <<>>)),
                                        Interleave(c.mkeys, c.items), deep, depth + 1)
                    IN  IF ~m.ok THEN [h |-> m.h, r |-> Thrown]
                        ELSE [h |-> [m.h EXCEPT ![n] = MapOf(Odds(m.out), Evens(m.out))],
                              r |-> Ref(n)]
               [] c.kind \in {"set", "arr"} ->
                    LET m == CloneElems(Append(h, Cell(c.kind, <<>>, <<>>, <<>>, <<>>)),
                                        c.items, deep, depth + 1)
                    IN  IF ~m.ok THEN [h |-> m.h, r |-> Thrown]
                        ELSE [h |-> [m.h EXCEPT ![n].items = m.out], r |-> Ref(n)]
               [] OTHER ->
                    LET m == CloneElems(Append(h, Rec(<<>>, <<>>)), c.props, deep, depth + 1)
                    IN  IF ~m.ok THEN [h |-> m.h, r |-> Thrown]
                        ELSE [h |-> [m.h EXCEPT ![n] = Rec(c.keys, m.out)], r |-> Ref(n)]

(***************************************************************************)
(* Inputs of clone: a root (cell 1) of any kind over two inner cells (3    *)
(* and 4), which may hold a leaf container (cell 2).  After the call the   *)
(* caller mutates containers it reaches through the clone, or through the  *)
(* original.                                                               *)
(***************************************************************************)
MaxMut == 1

CloneLeafShapes == {Arr(<<Num(1)>>), DateOf(2)}

CloneInnerShapes ==
    EqInnerShapes \cup {Arr(<<Ref(2)>>), SetOf(<<Ref(2)>>), Rec(<<"x">>, <<Ref(2)>>)}

InitClone ==
    /\ \E kind \in Kinds :
         \E r1 \in EqRootShapes(1, kind), l2 \in CloneLeafShapes,
            i3 \in CloneInnerShapes, i4 \in CloneInnerShapes :
             heap = <<r1, l2, i3, i4>>
    /\ heap0 = heap
    /\ op = "none"
    /\ args = <<>>
    /\ opts = [deep |-> TRUE]
    /\ ret = Undef
    /\ ret2 = "none"
    /\ mut = NoMut
    /\ pal = PalIdle
    /\ rt = Idle
    /\ wt = Idle
    /\ db = Idle
    /\ th = Idle

\* y = clone(x, {deep}); heap0 keeps the heap as the call left it
CloneCall ==
    /\ op = "none"
    /\ \E deep \in BOOLEAN :
         LET m == clone(heap, Ref(1), deep, 0)
         IN  /\ opts' = [deep |-> deep]
             /\ heap' = IF m.r = Thrown THEN heap ELSE m.h
             /\ heap0' = heap'
             /\ ret' = m.r
    /\ args' = <<Ref(1)>>
    /\ op' = "clone"
    /\ UNCHANGED <<ret2, mut, pal, rt, wt, db, th>>

\* a container with one more member: push, add, set, a new property, setTime
Added(c) ==
    CASE c.kind = "date" -> [c EXCEPT !.items = <<Num(0)>>]
      [] c.kind = "map" -> [c EXCEPT !.mkeys = Append(@, Num(0)), !.items = Append(@, Num(0))]
      [] c.kind = "rec" -> [c EXCEPT !.keys = Append(@, "m"), !.props = Append(@, Num(0))]
      [] OTHER -> [c EXCEPT !.items = Append(@, Num(0))]

\* a container without its first member: shift, delete
Removed(c) ==
    CASE c.kind = "map" -> [c EXCEPT !.mkeys = Tail(@), !.items = Tail(@)]
      [] c.kind = "rec" -> [c EXCEPT !.keys = Tail(@), !.props = Tail(@)]
      [] OTHER -> [c EXCEPT !.items = Tail(@)]

CanRemove(c) ==
    CASE c.kind = "date" -> FALSE
      [] c.kind = "rec" -> c.keys # <<>>
      [] OTHER -> c.items # <<>>

\* the caller mutates one container reachable from the clone (side "clone")
\* or from the original (side "orig")
Mutate ==
    /\ op = "clone"
    /\ ret # Thrown
    /\ Len(mut.cells) < MaxMut
    /\ \E side \in {"clone", "orig"} :
         /\ mut.side \in {"none", side}
         /\ \E c \in Reach(heap, IF side = "clone" THEN ret ELSE args[1]) :
              /\ \/ heap' = [heap EXCEPT ![c] = Added(@)]
                 \/ CanRemove(heap[c]) /\ heap' = [heap EXCEPT ![c] = Removed(@)]
              /\ mut' = [side |-> side, cells |-> Append(mut.cells, c)]
    /\ UNCHANGED <<heap0, op, args, opts, ret, ret2, pal, rt, wt, db, th>>

NextClone == CloneCall \/ Mutate

SpecClone == InitClone /\ [][NextClone]_vars

(***************************************************************************)
(* Claims about clone.                                                     *)
(***************************************************************************)

\* the containers reachable from v are as the call left them
Untouched(v) == \A c \in Reach(heap0, v) : heap[c] = heap0[c]

\* C6: after y = clone(x) with deep = true, y shares no mutable container
\* with x: mutating containers reachable from y leaves every container
\* reachable from x unchanged, and the other way round.
C6_DeepCloneIndependent ==
    (op = "clone" /\ opts.deep /\ ret # Thrown) =>
        /\ Reach(heap0, args[1]) \cap Reach(heap0, ret) = {}
        /\ mut.side = "clone" => Untouched(args[1])
        /\ mut.side = "orig" => Untouched(ret)

\* a deep clone of a value nested two containers deep, mutated at the bottom
C6_Witness ==
    /\ op = "clone"
    /\ opts.deep
    /\ ret # Thrown
    /\ mut.side = "clone"
    /\ DepthOf(heap0, ret) >= 2
    /\ \E c \in Range(mut.cells) : c # ret.v /\ Kids(heap0, c) = {}
    /\ Untouched(args[1])

\* C7: clone(x, {deep: false}) is a new top-level container holding the very
\* references x holds: a top-level change of the clone does not affect x, a
\* change of a nested container made through the clone is seen through x.
C7_ShallowClone ==
    (op = "clone" /\ ~opts.deep /\ ret # Thrown) =>
        /\ ret # args[1]
        /\ heap0[ret.v].kind = heap0[1].kind
        /\ heap0[ret.v].items = heap0[1].items
        /\ heap0[ret.v].mkeys = heap0[1].mkeys
        /\ heap0[ret.v].keys = heap0[1].keys
        /\ heap0[ret.v].props = heap0[1].props
        /\ ret.v \notin Reach(heap0, args[1])
        /\ mut.side = "clone" =>
             /\ \A c \in Range(mut.cells) : c # ret.v => c \in Reach(heap0, args[1])
             /\ \A c \in Reach(heap0, args[1]) :
                    c \notin Range(mut.cells) => heap[c] = heap0[c]

\* a shallow clone whose nested container was mutated through the clone
C7_Witness ==
    /\ op = "clone"
    /\ ~opts.deep
    /\ mut.side = "clone"
    /\ \E c \in Range(mut.cells) :
         c # ret.v /\ c \in Reach(heap0, args[1]) /\ heap[c] # heap0[c]

\* C15: clone with deep = true on a value that contains a reference cycle
\* never returns: its recursion goes deeper than any depth the engine
\* allows, there is no cycle guard; on every acyclic value it returns.
C15_CyclicCloneDiverges ==
    (op = "clone" /\ opts.deep) => (ret = Thrown <=> Cyclic(heap0, args[1]))

\* a deep clone of a sequence that holds itself and another container
C15_Witness ==
    /\ op = "clone"
    /\ opts.deep
    /\ Cyclic(heap0, args[1])
    /\ \E c \in Reach(heap0, args[1]) : c # args[1].v
    /\ ret = Thrown

\* C30: equal(clone(x), x) is true under default options for every acyclic
\* value x built from primitives, records, sequences, sets, keyed mappings
\* (including mappings whose keys are containers) and dates.
C30_CloneEqualsOriginal ==
    (op = "clone" /\ opts.deep /\ ret # Thrown /\ ~Cyclic(heap0, args[1])) =>
        equal(heap0, ret, args[1], DefaultEqualOptions) = "true"

(***************************************************************************)
(* promiseAllLimit                                                         *)
(*                                                                         *)
(* The caller passes promises 1..n, each pending, fulfilled (with its own  *)
(* index as value) or rejected; a pending one settles when its operation   *)
(* ends.  execute[i] is the promise promise.then(...) returns in iteration *)
(* i: it settles, in a later job, once promise i has settled.              *)
(***************************************************************************)
MaxProm == 3
MaxLimit == 3

\* the first element of seq s that is in S, 0 when there is none
FirstWith(s, S) ==
    IF \E k \in DOMAIN s : s[k] \in S
    THEN s[CHOOSE k \in DOMAIN s : s[k] \in S /\ \A j \in 1..(k - 1) : s[j] \notin S]
    ELSE 0

InitPal ==
    /\ \E n \in 1..MaxProm, limit \in 0..MaxLimit :
         \E st \in [1..n -> {"pending", "fulfilled", "rejected"}] :
             pal = [pc |-> "loop", n |-> n, limit |-> limit, status |-> st,
                    execute |-> [i \in 1..n |-> "none"],
                    results |-> [i \in 1..n |-> 0],
                    executing |-> <<>>, index |-> 1, winner |-> 0,
                    outcome |-> "pending", value |-> <<>>, reason |-> 0]
    /\ heap = <<>>
    /\ heap0 = <<>>
    /\ op = "promiseAllLimit"
    /\ args = <<>>
    /\ opts = [deep |-> TRUE]
    /\ ret = Undef
    /\ ret2 = "none"
    /\ mut = NoMut
    /\ rt = Idle
    /\ wt = Idle
    /\ db = Idle
    /\ th = Idle

\* promiseAllLimit runs without interruption from one await to the next:
\* jobs and other tasks run only while it waits or after it ended
Suspended == pal.pc \in {"race", "all", "done"}

\* the operation behind promise i ends: the promise settles
Settle(i) ==
    /\ Suspended
    /\ pal.status[i] = "pending"
    /\ \E how \in {"fulfilled", "rejected"} : pal' = [pal EXCEPT !.status[i] = how]
    /\ UNCHANGED <<objVars, rt, wt, db, th>>

\* the job of then on promise i: result => { results[index] = result } runs
\* when the promise fulfilled, and execute[i] settles as promise i did; a
\* race or an all that waits on execute[i] and has no outcome yet takes it
\* (all only takes a rejection)
ThenJob(i) ==
    /\ Suspended
    /\ pal.execute[i] = "pending"
    /\ pal.status[i] # "pending"
    /\ pal' = [pal EXCEPT
                 !.execute[i] = pal.status[i],
                 !.results[i] = IF pal.status[i] = "fulfilled" THEN i ELSE @,
                 !.winner = IF /\ @ = 0
                               /\ i \in Range(pal.executing)
                               /\ \/ pal.pc = "race"
                                  \/ pal.pc = "all" /\ pal.status[i] = "rejected"
                            THEN i ELSE @]
    /\ UNCHANGED <<objVars, rt, wt, db, th>>

\* one iteration of the for loop up to its await, or the end of the loop:
\* lines 50-58, and line 63 up to its await
LoopStep ==
    /\ pal.pc = "loop"
    /\ IF pal.index > pal.n
       THEN pal' = [pal EXCEPT
                      !.pc = "all",
                      !.winner = FirstWith(pal.executing,
                                           {j \in 1..pal.n : pal.execute[j] = "rejected"})]
       ELSE LET executing == Append(pal.executing, pal.index)
            IN  IF Len(executing) >= pal.limit
                THEN pal' = [pal EXCEPT
                               !.execute[pal.index] = "pending",
                               !.executing = executing,
                               !.pc = "race",
                               !.winner = FirstWith(pal.executing,
                                              {j \in 1..pal.n : pal.execute[j] \notin {"none", "pending"}})]
                ELSE pal' = [pal EXCEPT
                               !.execute[pal.index] = "pending",
                               !.executing = executing,
                               !.index = @ + 1]
    /\ UNCHANGED <<objVars, rt, wt, db, th>>

\* executing.splice(executing.findIndex(p => p === execute), 1), execute
\* being the promise of the current iteration
SpliceCurrent(executing, index) == SelectSeq(executing, LAMBDA j : j # index)

\* await Promise.race(executing) returns or throws, lines 58-59
RaceResume ==
    /\ pal.pc = "race"
    /\ pal.winner # 0
    /\ IF pal.execute[pal.winner] = "rejected"
       THEN pal' = [pal EXCEPT !.pc = "done", !.outcome = "rejected", !.reason = pal.winner]
       ELSE pal' = [pal EXCEPT
                      !.executing = SpliceCurrent(pal.executing, pal.index),
                      !.index = @ + 1,
                      !.winner = 0,
                      !.pc = "loop"]
    /\ UNCHANGED <<objVars, rt, wt, db, th>>

\* await Promise.all(executing) returns or throws, and return results:
\* lines 63-64
AllResume ==
    /\ pal.pc = "all"
    /\ IF pal.winner # 0
       THEN pal' = [pal EXCEPT !.pc = "done", !.outcome = "rejected", !.reason = pal.winner]
       ELSE /\ \A j \in Range(pal.executing) : pal.execute[j] = "fulfilled"
            /\ pal' = [pal EXCEPT !.pc = "done", !.outcome = "resolved", !.value = pal.results]
    /\ UNCHANGED <<objVars, rt, wt, db, th>>

NextPal ==
    \/ \E i \in 1..MaxProm : i <= pal.n /\ Settle(i)
    \/ \E i \in 1..MaxProm : i <= pal.n /\ ThenJob(i)
    \/ LoopStep
    \/ RaceResume
    \/ AllResume

SpecPal == InitPal /\ [][NextPal]_vars

\* C3: promiseAllLimit resolves only after every input promise has
\* fulfilled, and its result holds the value of promises[i] at index i
\* (stated for runs in which no promise rejects).
C3_ResolvesWithAll ==
    (pal.pc = "done" /\ pal.outcome = "resolved"
       /\ \A i \in 1..pal.n : pal.status[i] # "rejected") =>
        \A i \in 1..pal.n : pal.status[i] = "fulfilled" /\ pal.value[i] = i

\* C27: if any input promise rejects, the promise promiseAllLimit returned
\* rejects with that reason, for every limit and every settle order: it
\* rejects with the reason of an input that rejected, and it never resolves
\* with a result array while an input has rejected.
C27_RejectionPropagates ==
    /\ []((pal.pc = "done" /\ pal.outcome = "rejected" /\ pal.reason # 0) =>
            pal.status[pal.reason] = "rejected")
    /\ [][(pal.pc = "all" /\ pal'.outcome = "resolved") =>
            \A i \in 1..pal.n : pal.status[i] # "rejected"]_vars

(***************************************************************************)
(* retry                                                                   *)
(*                                                                         *)
(* fn is the caller's: each invocation returns a promise that fulfils with *)
(* a value or rejects with an error, here both numbered by the invocation. *)
(* rt.results keeps how each invocation ended, rt.sleeps the delays        *)
(* retry slept, rt.inflight the invocations not yet settled.  Time is a   *)
(* clock in ms, rt.now: it advances while retry waits for fn or sleeps,    *)
(* and the timer of sleep fires when it is due.  rt.started and rt.failed  *)
(* keep the times at which fn was invoked and at which an attempt failed.  *)
(***************************************************************************)
MaxAttempts == 4
MaxBaseDelay == 2
\* the longest fn takes to settle
MaxFnTime == 1

\* no error: the value of lastError before the first catch
NoError == 0

InitRetry ==
    /\ \E maxAttempts \in 0..MaxAttempts, baseDelay \in 0..MaxBaseDelay :
         rt = [pc |-> "start", maxAttempts |-> maxAttempts, baseDelay |-> baseDelay,
               attempt |-> 1, lastError |-> NoError, calls |-> 0, inflight |-> 0,
               results |-> <<>>, sleeps |-> <<>>,
               now |-> 0, due |-> 0, started |-> <<>>, failed |-> <<>>,
               outcome |-> "pending", value |-> 0, reason |-> NoError]
    /\ heap = <<>>
    /\ heap0 = <<>>
    /\ op = "retry"
    /\ args = <<>>
    /\ opts = [deep |-> TRUE]
    /\ ret = Undef
    /\ ret2 = "none"
    /\ mut = NoMut
    /\ pal = PalIdle
    /\ wt = Idle
    /\ db = Idle
    /\ th = Idle

\* a loop that would run one attempt more
LoopContinuesOneMore(attempt, maxAttempts) == attempt <= maxAttempts + 1

\* attempt <= maxAttempts, the condition of the for loop
LoopContinues(attempt, maxAttempts) == attempt <= maxAttempts

\* a retry that would never take an attempt for the last one
IsLastAttemptNever(attempt, maxAttempts) == FALSE

\* attempt === maxAttempts
IsLastAttempt(attempt, maxAttempts) == attempt = maxAttempts

\* a backoff that would wait baseDelay every time
BackoffDelayConstant(baseDelay, attempt) == baseDelay

\* baseDelay * Math.pow(2, attempt - 1)
BackoffDelay(baseDelay, attempt) == baseDelay * 2 ^ (attempt - 1)

\* the head of the for loop with rt.attempt = attempt: fn is invoked (line
\* 24, up to the await), or the loop ends and line 37 throws lastError
LoopHead(r, attempt) ==
    IF LoopContinues(attempt, r.maxAttempts)
    THEN [r EXCEPT !.attempt = attempt, !.pc = "awaitFn",
                   !.calls = @ + 1, !.inflight = @ + 1,
                   !.started = Append(@, r.now)]
    ELSE [r EXCEPT !.attempt = attempt, !.pc = "done",
                   !.outcome = "rejected", !.reason = r.lastError]

\* retry is called: it runs up to its first await
RetryStart ==
    /\ rt.pc = "start"
    /\ rt' = LoopHead(rt, 1)
    /\ UNCHANGED <<objVars, pal, wt, db, th>>

\* the promise of fn fulfils: return await fn()
FnFulfils ==
    /\ rt.pc = "awaitFn"
    /\ rt' = [rt EXCEPT !.pc = "done", !.inflight = @ - 1,
                        !.results = Append(@, "ok"),
                        !.outcome = "resolved", !.value = rt.calls]
    /\ UNCHANGED <<objVars, pal, wt, db, th>>

\* the promise of fn rejects (or fn threw): the catch block, lines 25-33 up
\* to the await of sleep
FnRejects ==
    /\ rt.pc = "awaitFn"
    /\ LET r == [rt EXCEPT !.inflight = @ - 1, !.results = Append(@, "err"),
                           !.lastError = rt.calls, !.failed = Append(@, rt.now)]
           delay == BackoffDelay(rt.baseDelay, rt.attempt)
       IN  IF IsLastAttempt(rt.attempt, rt.maxAttempts)
           THEN rt' = [r EXCEPT !.pc = "done", !.outcome = "rejected",
                                !.reason = r.lastError]
           ELSE rt' = [r EXCEPT !.pc = "sleep", !.due = rt.now + delay,
                                !.sleeps = Append(@, delay)]
    /\ UNCHANGED <<objVars, pal, wt, db, th>>

\* a millisecond passes while retry waits for fn or for the timer of sleep
RetryTick ==
    /\ \/ rt.pc = "awaitFn" /\ rt.now < rt.started[Len(rt.started)] + MaxFnTime
       \/ rt.pc = "sleep" /\ rt.now < rt.due
    /\ rt' = [rt EXCEPT !.now = @ + 1]
    /\ UNCHANGED <<objVars, pal, wt, db, th>>

\* the timer of sleep fires: attempt++ and the head of the loop
SleepEnds ==
    /\ rt.pc = "sleep"
    /\ rt.now >= rt.due
    /\ rt' = LoopHead(rt, rt.attempt + 1)
    /\ UNCHANGED <<objVars, pal, wt, db, th>>

NextRetry == RetryStart \/ FnFulfils \/ FnRejects \/ RetryTick \/ SleepEnds

SpecRetry == InitRetry /\ [][NextRetry]_vars

\* C16: retry resolves with the value of the first attempt that succeeds
\* and never invokes fn again after it; attempts run one after another and
\* fn is invoked at most maxAttempts times in total.
C16_FirstSuccess ==
    rt.pc # "idle" =>
        /\ rt.calls <= rt.maxAttempts
        /\ rt.inflight <= 1
        /\ \A k \in 1..(Len(rt.results) - 1) : rt.results[k] = "err"
        /\ rt.outcome = "resolved" =>
              /\ rt.results[rt.value] = "ok"
              /\ rt.value = rt.calls
              /\ rt.inflight = 0

\* retry resolved with the value of its third attempt
C16_Witness ==
    /\ rt.pc = "done"
    /\ rt.outcome = "resolved"
    /\ rt.results = <<"err", "err", "ok">>
    /\ rt.value = 3
    /\ rt.maxAttempts > 3

\* C17: when every attempt fails (maxAttempts >= 1), retry rejects with the
\* error of the last, maxAttempts-th, attempt after exactly maxAttempts
\* invocations of fn, without sleeping after that final failure.
C17_AllFail ==
    /\ (rt.pc = "done" /\ rt.outcome = "rejected" /\ rt.maxAttempts >= 1) =>
          /\ rt.calls = rt.maxAttempts
          /\ rt.results = [k \in 1..rt.maxAttempts |-> "err"]
          /\ rt.reason = rt.maxAttempts
          /\ Len(rt.sleeps) = rt.maxAttempts - 1
          /\ rt.now = rt.failed[rt.maxAttempts]
    /\ (rt.pc \notin {"idle", "done"} /\ rt.maxAttempts >= 1) =>
          Len(rt.failed) < rt.maxAttempts

\* retry rejected after the failure of each of its three attempts
C17_Witness ==
    /\ rt.pc = "done"
    /\ rt.outcome = "rejected"
    /\ rt.maxAttempts = 3
    /\ rt.results = <<"err", "err", "err">>
    /\ rt.reason = 3

\* C18: retry backs off exponentially: after the k-th failed attempt
\* (k < maxAttempts) it waits baseDelay * 2^(k-1) ms before attempt k+1, so
\* the first wait is baseDelay and each wait is twice the previous one.
C18_Backoff ==
    rt.pc # "idle" =>
        /\ \A k \in DOMAIN rt.sleeps :
              /\ k < rt.maxAttempts
              /\ rt.sleeps[k] = rt.baseDelay * 2 ^ (k - 1)
              /\ k = 1 => rt.sleeps[k] = rt.baseDelay
              /\ k > 1 => rt.sleeps[k] = 2 * rt.sleeps[k - 1]
        /\ \A k \in 2..Len(rt.started) :
              rt.started[k] - rt.failed[k - 1] = rt.baseDelay * 2 ^ (k - 2)

\* three waits, each twice the one before, and then the fourth attempt
C18_Witness ==
    /\ rt.pc = "awaitFn"
    /\ rt.baseDelay = 2
    /\ rt.sleeps = <<2, 4, 8>>
    /\ Len(rt.started) = 4
    /\ rt.started[4] - rt.failed[3] = 8

(***************************************************************************)
(* withTimeout                                                             *)
(*                                                                         *)
(* promise is the caller's: pending, fulfilled or rejected at the call,    *)
(* and a pending one settles when its operation ends.  wt.now is the clock *)
(* in ms; the timer fires when it is due or, the event loop being busy,   *)
(* up to MaxLate ms later.  wt.jobs is the queue of the reactions of the   *)
(* race, which run before anything else happens; wt.order keeps the order  *)
(* in which the promise settled and the timer fired, wt.settledAt and      *)
(* wt.firedAt the times.                                                   *)
(***************************************************************************)
MaxTimeout == 3
MaxLate == 1

Settled == {"fulfilled", "rejected"}

InitTimeout ==
    /\ \E timeoutMs \in 0..MaxTimeout, st \in {"pending"} \cup Settled :
         wt = [pc |-> "start", timeoutMs |-> timeoutMs, promise |-> st,
               timer |-> "none", now |-> 0, jobs |-> <<>>,
               settledAt |-> 0, firedAt |-> 0,
               order |-> IF st = "pending" THEN <<>> ELSE <<"promise">>,
               outcome |-> "pending", from |-> "none"]
    /\ heap = <<>>
    /\ heap0 = <<>>
    /\ op = "withTimeout"
    /\ args = <<>>
    /\ opts = [deep |-> TRUE]
    /\ ret = Undef
    /\ ret2 = "none"
    /\ mut = NoMut
    /\ pal = PalIdle
    /\ rt = Idle
    /\ db = Idle
    /\ th = Idle

\* withTimeout(promise, timeoutMs, msg): the timer is set and the race
\* subscribes to promise and to timeout, lines 75-79
WithTimeoutCall ==
    /\ wt.pc = "start"
    /\ wt' = [wt EXCEPT !.pc = "racing", !.timer = "set",
                        !.jobs = IF wt.promise \in Settled THEN <<"promise">> ELSE <<>>]
    /\ UNCHANGED <<objVars, pal, rt, db, th>>

\* the operation behind promise ends, whatever the race came to
PromiseSettles ==
    /\ wt.pc = "racing"
    /\ wt.jobs = <<>>
    /\ wt.promise = "pending"
    /\ \E how \in Settled :
         wt' = [wt EXCEPT !.promise = how, !.jobs = <<"promise">>,
                          !.settledAt = wt.now,
                          !.order = Append(@, "promise")]
    /\ UNCHANGED <<objVars, pal, rt, db, th>>

\* a millisecond passes
TimeoutTick ==
    /\ wt.pc = "racing"
    /\ wt.jobs = <<>>
    /\ wt.now < wt.timeoutMs + MaxLate
    /\ wt' = [wt EXCEPT !.now = @ + 1]
    /\ UNCHANGED <<objVars, pal, rt, db, th>>

\* the timer fires: reject(new Error(timeoutMessage)), line 76
TimerFires ==
    /\ wt.pc = "racing"
    /\ wt.jobs = <<>>
    /\ wt.timer = "set"
    /\ wt.now >= wt.timeoutMs
    /\ wt' = [wt EXCEPT !.timer = "fired", !.jobs = <<"timeout">>,
                        !.firedAt = wt.now,
                        !.order = Append(@, "timeout")]
    /\ UNCHANGED <<objVars, pal, rt, db, th>>

\* a race that would follow the promise that settled last
RaceTakesLast(w, src) ==
    [w EXCEPT !.from = src,
              !.outcome = IF src = "timeout" THEN "rejected" ELSE w.promise]

\* Promise.race: the first of its promises to settle settles it, a later
\* one changes nothing
RaceTakes(w, src) ==
    IF w.outcome # "pending" THEN w
    ELSE [w EXCEPT !.from = src,
                   !.outcome = IF src = "timeout" THEN "rejected" ELSE w.promise]

\* the reaction of the race to promise or to timeout
RaceJob ==
    /\ wt.pc = "racing"
    /\ wt.jobs # <<>>
    /\ wt' = [RaceTakes(wt, Head(wt.jobs)) EXCEPT !.jobs = Tail(wt.jobs)]
    /\ UNCHANGED <<objVars, pal, rt, db, th>>

NextTimeout == WithTimeoutCall \/ PromiseSettles \/ TimeoutTick \/ TimerFires \/ RaceJob

SpecTimeout == InitTimeout /\ [][NextTimeout]_vars

\* what withTimeout came to is what came first
SettledAsFirst ==
    wt.outcome # "pending" =>
        /\ wt.from = Head(wt.order)
        /\ wt.from = "promise" => wt.outcome = wt.promise
        /\ wt.from = "timeout" =>
              /\ wt.outcome = "rejected"
              /\ wt.firedAt >= wt.timeoutMs
              /\ wt.promise # "pending" => wt.settledAt >= wt.firedAt

\* C19: withTimeout settles exactly as promise does when promise settles
\* before the timer fires, and rejects with the timeout error when the
\* timer fires first; it settles once and its outcome never changes after,
\* while promise may still settle: its later result is only ignored.
C19_RaceWithTimer ==
    /\ [](wt.pc # "idle" => SettledAsFirst)
    /\ [][wt.outcome # "pending" => (wt'.outcome = wt.outcome /\ wt'.from = wt.from)]_vars

\* the timer fired first, and promise fulfilled after that
C19_Witness ==
    /\ wt.pc = "racing"
    /\ wt.order = <<"timeout", "promise">>
    /\ wt.promise = "fulfilled"
    /\ wt.settledAt > wt.firedAt
    /\ wt.jobs = <<>>
    /\ wt.outcome = "rejected"
    /\ wt.from = "timeout"

(***************************************************************************)
(* debounce                                                                *)
(*                                                                         *)
(* db.debounceTimer is the id of the timer the closure holds, 0 for        *)
(* undefined; db.timers are the timers set and not yet fired or cleared,   *)
(* each with the arguments its callback `later` captured.  db.now is the   *)
(* clock in ms and a timer fires when it is due.  db.calls keeps the calls *)
(* of the debounced function and db.invoked the invocations of func, with  *)
(* their times; the k-th call passes k as its arguments and its this.      *)
(***************************************************************************)
MaxCalls == 3
MaxDelay == 2
MaxTime == 6

InitDebounce ==
    /\ \E delay \in 0..MaxDelay, immediate \in BOOLEAN :
         db = [pc |-> "ready", delay |-> delay, immediate |-> immediate,
               debounceTimer |-> 0, timers |-> {}, nextId |-> 1, now |-> 0,
               calls |-> <<>>, invoked |-> <<>>]
    /\ heap = <<>>
    /\ heap0 = <<>>
    /\ op = "debounce"
    /\ args = <<>>
    /\ opts = [deep |-> TRUE]
    /\ ret = Undef
    /\ ret2 = "none"
    /\ mut = NoMut
    /\ pal = PalIdle
    /\ rt = Idle
    /\ wt = Idle
    /\ th = Idle

\* a clearTimeout that would clear nothing
ClearTimeoutNothing(timers, id) == timers

\* clearTimeout(id): a no-op when id is undefined or the timer has fired
ClearTimeout(timers, id) == {t \in timers : t.id # id}

\* func.apply(context, args) at the present time
Invoke(d, arg, sync) ==
    [d EXCEPT !.invoked = Append(@, [at |-> d.now, arg |-> arg, sync |-> sync])]

\* a call of the debounced function, lines 12-26
DebouncedCall ==
    /\ db.pc = "ready"
    /\ Len(db.calls) < MaxCalls
    /\ LET arg == Len(db.calls) + 1
           callNow == db.immediate /\ db.debounceTimer = 0
           d == [db EXCEPT
                   !.calls = Append(@, [at |-> db.now, arg |-> arg]),
                   !.timers = ClearTimeout(@, db.debounceTimer)
                                \cup {[id |-> db.nextId, due |-> db.now + db.delay,
                                       arg |-> arg]},
                   !.debounceTimer = db.nextId,
                   !.nextId = @ + 1]
       IN  db' = IF callNow THEN Invoke(d, arg, TRUE) ELSE d
    /\ UNCHANGED <<objVars, pal, rt, wt, th>>

\* a timer fires and runs later, lines 14-17
DebounceTimerFires ==
    /\ db.pc = "ready"
    /\ \E t \in db.timers :
         /\ t.due <= db.now
         /\ LET d == [db EXCEPT !.timers = @ \ {t}, !.debounceTimer = 0]
            IN  db' = IF ~db.immediate THEN Invoke(d, t.arg, FALSE) ELSE d
    /\ UNCHANGED <<objVars, pal, rt, wt, th>>

\* a millisecond passes: no timer is due
DebounceTick ==
    /\ db.pc = "ready"
    /\ db.now < MaxTime
    /\ \A t \in db.timers : db.now < t.due
    /\ db' = [db EXCEPT !.now = @ + 1]
    /\ UNCHANGED <<objVars, pal, rt, wt, th>>

NextDebounce == DebouncedCall \/ DebounceTimerFires \/ DebounceTick

SpecDebounce == InitDebounce /\ [][NextDebounce]_vars

\* the calls made so far are one burst: each came less than delay after the
\* one before
OneBurst ==
    /\ db.calls # <<>>
    /\ \A k \in 2..Len(db.calls) : db.calls[k].at - db.calls[k - 1].at < db.delay

LastCall == db.calls[Len(db.calls)]

\* C20: with immediate = false, for a burst of calls each less than delay
\* after the one before, func is invoked exactly once, delay after the last
\* call of the burst and with the arguments of that call; no call invokes
\* func synchronously.
C20_TrailingOnce ==
    (db.pc = "ready" /\ ~db.immediate /\ OneBurst) =>
        IF db.timers # {}
        THEN db.invoked = <<>>
        ELSE db.invoked = <<[at |-> LastCall.at + db.delay, arg |-> LastCall.arg,
                             sync |-> FALSE]>>

\* a burst of three calls at three different times, and the one invocation
C20_Witness ==
    /\ db.pc = "ready"
    /\ ~db.immediate
    /\ OneBurst
    /\ Len(db.calls) = 3
    /\ db.calls[1].at < db.calls[2].at
    /\ db.calls[2].at < db.calls[3].at
    /\ db.timers = {}
    /\ db.invoked = <<[at |-> LastCall.at + db.delay, arg |-> 3, sync |-> FALSE]>>

\* call k of the debounced function invoked func synchronously
CallInvoked(k) ==
    \E i \in DOMAIN db.invoked :
        db.invoked[i] = [at |-> db.calls[k].at, arg |-> k, sync |-> TRUE]

\* the time between call k and the call before it
GapBefore(k) == db.calls[k].at - db.calls[k - 1].at

\* C29: with immediate = true, a debounced function invokes func
\* synchronously on the first call of a burst and on no other call of that
\* burst, and the timer never invokes func; a later call invokes func again
\* only after delay has elapsed with no call.
C29_LeadingOnce ==
    (db.pc = "ready" /\ db.immediate) =>
        /\ \A i \in DOMAIN db.invoked : db.invoked[i].sync
        /\ Len(db.invoked) <= Len(db.calls)
        /\ db.calls # <<>> => CallInvoked(1)
        /\ \A k \in 2..Len(db.calls) :
              /\ GapBefore(k) < db.delay => ~CallInvoked(k)
              /\ GapBefore(k) > db.delay => CallInvoked(k)

\* two bursts: func was invoked on the first call and on the third, which
\* came after the timer had fired
C29_Witness ==
    /\ db.pc = "ready"
    /\ db.immediate
    /\ db.delay = MaxDelay
    /\ Len(db.calls) = 3
    /\ GapBefore(2) > 0
    /\ GapBefore(2) < db.delay
    /\ GapBefore(3) > db.delay
    /\ db.timers = {}
    /\ Len(db.invoked) = 2
    /\ CallInvoked(1)
    /\ CallInvoked(3)

(***************************************************************************)
(* throttle                                                                *)
(*                                                                         *)
(* th.timeout is the id of the timer the closure holds, th.lastRan and     *)
(* th.lastArgs what it remembers, each 0 for undefined.  th.now is         *)
(* Date.now(), a monotonic clock in ms that never reads 0; a timer fires   *)
(* when it is due or up to MaxLate ms later.  th.calls keeps the calls of  *)
(* the throttled function and th.invoked the invocations of func, with     *)
(* their times; the k-th call passes k as its arguments and its this.      *)
(* Calls stop early enough for a timer they set to fire by MaxTime.        *)
(***************************************************************************)
InitThrottle ==
    /\ \E delay \in 0..MaxDelay, leading \in BOOLEAN, trailing \in BOOLEAN :
         th = [pc |-> "ready", delay |-> delay, leading |-> leading,
               trailing |-> trailing, timeout |-> 0, lastRan |-> 0, lastArgs |-> 0,
               timers |-> {}, nextId |-> 1, now |-> 1,
               calls |-> <<>>, invoked |-> <<>>]
    /\ heap = <<>>
    /\ heap0 = <<>>
    /\ op = "throttle"
    /\ args = <<>>
    /\ opts = [deep |-> TRUE]
    /\ ret = Undef
    /\ ret2 = "none"
    /\ mut = NoMut
    /\ pal = PalIdle
    /\ rt = Idle
    /\ wt = Idle
    /\ db = Idle

\* invokeFunc, lines 210-216
invokeFunc(t, sync) ==
    IF t.lastArgs # 0
    THEN [t EXCEPT !.invoked = Append(@, [at |-> t.now, arg |-> t.lastArgs, sync |-> sync]),
                   !.lastRan = t.now,
                   !.lastArgs = 0]
    ELSE t

\* delay - (lastRan ? now - lastRan : 0)
Remaining(delay, lastRan, now) == delay - (IF lastRan # 0 THEN now - lastRan ELSE 0)

\* a throttle that would let every call through
ShouldInvokeAlways(remaining, delay, isFirstCall, leading) == TRUE

\* remaining <= 0 || remaining > delay || (isFirstCall && leading)
ShouldInvoke(remaining, delay, isFirstCall, leading) ==
    remaining <= 0 \/ remaining > delay \/ (isFirstCall /\ leading)

\* a throttle that would never set the trailing timer
SetsTrailingNever(timeout, trailing) == FALSE

\* !timeout && trailing
SetsTrailing(timeout, trailing) == timeout = 0 /\ trailing

\* a call of the throttled function, lines 218-245
ThrottledCall ==
    /\ th.pc = "ready"
    /\ Len(th.calls) < MaxCalls
    /\ th.now + th.delay <= MaxTime
    /\ LET arg == Len(th.calls) + 1
           isFirstCall == th.lastRan = 0
           lastRan == IF isFirstCall /\ ~th.leading THEN th.now ELSE th.lastRan
           remaining == Remaining(th.delay, lastRan, th.now)
           t == [th EXCEPT !.calls = Append(@, [at |-> th.now, arg |-> arg]),
                           !.lastRan = lastRan,
                           !.lastArgs = arg]
       IN  IF ShouldInvoke(remaining, th.delay, isFirstCall, th.leading)
           THEN th' = invokeFunc([t EXCEPT !.timers = ClearTimeout(@, th.timeout),
                                           !.timeout = 0], TRUE)
           ELSE IF SetsTrailing(th.timeout, th.trailing)
           THEN th' = [t EXCEPT !.timers = @ \cup {[id |-> th.nextId,
                                                    due |-> th.now + remaining]},
                                !.timeout = th.nextId,
                                !.nextId = @ + 1]
           ELSE th' = t
    /\ UNCHANGED <<objVars, pal, rt, wt, db>>

\* the trailing timer fires, lines 240-243
ThrottleTimerFires ==
    /\ th.pc = "ready"
    /\ \E tm \in th.timers :
         /\ tm.due <= th.now
         /\ th' = [invokeFunc([th EXCEPT !.timers = @ \ {tm}], FALSE) EXCEPT !.timeout = 0]
    /\ UNCHANGED <<objVars, pal, rt, wt, db>>

\* a millisecond passes: no timer is overdue by MaxLate
ThrottleTick ==
    /\ th.pc = "ready"
    /\ th.now < MaxTime + MaxLate
    /\ \A tm \in th.timers : th.now < tm.due + MaxLate
    /\ th' = [th EXCEPT !.now = @ + 1]
    /\ UNCHANGED <<objVars, pal, rt, wt, db>>

NextThrottle == ThrottledCall \/ ThrottleTimerFires \/ ThrottleTick

SpecThrottle == InitThrottle /\ [][NextThrottle]_vars

\* call k invoked func synchronously
InvokedAtOnce(k) ==
    \E i \in DOMAIN th.invoked : th.invoked[i].arg = k /\ th.invoked[i].sync

\* the time of the last invocation of func before call k, 0 when there is none
LastInvocationBefore(k) ==
    SetMax({0} \cup {th.invoked[i].at : i \in {j \in DOMAIN th.invoked : th.invoked[j].arg < k}})

\* C21: with the default options (leading = true, trailing = false) the
\* first call of a throttled function invokes func synchronously, and every
\* call made less than delay after the last invocation does not invoke
\* func, neither at once nor later.
C21_LeadingOnly ==
    (th.pc = "ready" /\ th.leading /\ ~th.trailing) =>
        /\ th.calls # <<>> => InvokedAtOnce(1)
        /\ \A i \in DOMAIN th.invoked : th.invoked[i].sync
        /\ \A k \in 2..Len(th.calls) :
              th.calls[k].at - LastInvocationBefore(k) < th.delay =>
                  \A i \in DOMAIN th.invoked : th.invoked[i].arg # k

\* three calls: the first invoked func, the second came too early and the
\* third late enough
C21_Witness ==
    /\ th.pc = "ready"
    /\ th.leading
    /\ ~th.trailing
    /\ Len(th.calls) = 3
    /\ th.calls[2].at - th.calls[1].at < th.delay
    /\ th.calls[2].at > th.calls[1].at
    /\ th.invoked = <<[at |-> th.calls[1].at, arg |-> 1, sync |-> TRUE],
                      [at |-> th.calls[3].at, arg |-> 3, sync |-> TRUE]>>
    /\ th.now > th.calls[3].at

\* C22: for every combination of leading and trailing and every timing of
\* the calls, any two consecutive invocations of func are at least delay
\* ms apart.
C22_MinimumGap ==
    th.pc = "ready" =>
        \A i \in 2..Len(th.invoked) :
            th.invoked[i].at - th.invoked[i - 1].at >= th.delay

\* a leading invocation and the trailing one, fired late
C22_Witness ==
    /\ th.pc = "ready"
    /\ th.leading
    /\ th.trailing
    /\ th.delay = MaxDelay
    /\ Len(th.invoked) = 2
    /\ th.invoked[1].sync
    /\ ~th.invoked[2].sync
    /\ th.invoked[2].at - th.invoked[1].at > th.delay

\* the timers fire and time goes on
SpecThrottleFair ==
    /\ SpecThrottle
    /\ WF_vars(ThrottleTimerFires)
    /\ WF_vars(ThrottleTick)

\* a call was suppressed since the last invocation of func
Suppressed == th.pc = "ready" /\ th.lastArgs # 0

\* C28: with trailing = true, whenever a call was suppressed since the last
\* invocation, func is eventually invoked for that window: the trailing
\* timer is set, an invocation passes the arguments and this of the most
\* recent call, and no call is passed to func twice.
C28_TrailingInvocation ==
    /\ []((Suppressed /\ th.trailing) =>
            /\ th.lastArgs = Len(th.calls)
            /\ \E tm \in th.timers : tm.id = th.timeout)
    /\ [](th.pc = "ready" =>
            \A i, j \in DOMAIN th.invoked :
                i # j => th.invoked[i].arg # th.invoked[j].arg)
    /\ [][(th.pc = "ready" /\ th.trailing /\ th'.invoked # th.invoked) =>
            /\ Len(th'.invoked) = Len(th.invoked) + 1
            /\ th'.invoked[Len(th'.invoked)].arg = Len(th'.calls)]_vars
    /\ ((Suppressed /\ th.trailing) ~> ~Suppressed)

\* the trailing timer invoked func with the arguments of the third call,
\* the second and the third having been suppressed
C28_Witness ==
    /\ th.pc = "ready"
    /\ th.trailing
    /\ th.leading
    /\ Len(th.calls) = 3
    /\ th.calls[2].at < th.calls[3].at
    /\ Len(th.invoked) = 2
    /\ th.invoked[2].arg = 3
    /\ ~th.invoked[2].sync

====
